---- MODULE Spec2Model ----
(***************************************************************************)
(* Model of the blockchain simulator (src/src/node.rs, model.rs,           *)
(* hashing.rs, views.rs): canonical hashing, Merkle tree construction,     *)
(* inclusion-proof generation and verification, mempool selection and the  *)
(* proof-of-work mining loop.                                              *)
(*                                                                         *)
(* Strings are sequences of one-character strings, so that "0x" prefixes,  *)
(* concatenation, lexical comparison (Rust's str ordering) and numeric     *)
(* comparison (U256::from_be_hex) are all computed as the code computes    *)
(* them.  The external sha256::digest function is modelled as a random     *)
(* oracle: `sha` is the table of digests computed so far, a digest of a    *)
(* new input is a value not yet handed out (so digest is collision-free),  *)
(* and a digest of an input seen before is the value it had.               *)
(***************************************************************************)
EXTENDS Integers, Sequences, FiniteSets, Bags, TLC

VARIABLES
    sha,                \* digests computed so far: input string -> hex digest
    unused,             \* digest values not yet handed out, per lane
    width,              \* how many of a lane's next values a fresh digest may take
    overflow_checks,    \* build profile: TRUE panics on integer overflow, FALSE wraps
    blockchain_state,   \* file args.blockchain_state: the persisted chain
    mempool,            \* file args.mempool: the persisted pending transactions
    inclusion_proof,    \* file args.inclusion_proof: <<>> or <<proof>>
    blockchain_state_output, \* file args.blockchain_state_output: <<>> or <<chain>>
    mempool_output,     \* file args.mempool_output: <<>> or <<transactions>>
    pc,                 \* position of the running command
    status,             \* how the last command ended: "none", "ok", "panic"
    log,                \* reports of the last command
    args,               \* arguments of the running command
    nodes,              \* construct_merkle_tree: the current level
    target,             \* transaction_hash_to_verify of the last generation
    proof,              \* InclusionProof::verify: self
    current_hash,       \* InclusionProof::verify: current_hash
    vi,                 \* InclusionProof::verify: loop index i
    caller,             \* who called verify: "direct" or "cli"
    verdicts,           \* results of the verify calls so far
    tampered,           \* <<>> or <<j>>: the sibling replaced in the proof file
    blockchain,         \* produce_blocks: the chain in memory
    most_recent_block,  \* produce_blocks: index of most_recent_block in blockchain
    executable_transactions, \* produce_blocks: the pool being drained
    new_block_transactions,  \* mine_new_block: transactions
    header,             \* mine_new_block: header
    block_header_hash,  \* mine_new_block: block_header_hash
    mined,              \* produce_blocks: iterations finished
    parents             \* for each mined block, the chain index of the parent it was given

oracleVars == <<sha, unused, width>>
fileVars == <<blockchain_state, mempool, inclusion_proof, blockchain_state_output, mempool_output>>
verifyVars == <<proof, current_hash, vi, caller, verdicts>>
mineVars == <<blockchain, most_recent_block, executable_transactions,
              new_block_transactions, header, block_header_hash, mined, parents>>
vars == <<sha, unused, width, overflow_checks, blockchain_state, mempool, inclusion_proof,
          blockchain_state_output, mempool_output, pc, status, log, args, nodes, target,
          proof, current_hash, vi, caller, verdicts, tampered, blockchain,
          most_recent_block, executable_transactions, new_block_transactions, header,
          block_header_hash, mined, parents>>

(***************************************************************************)
(* Bounds of the model.                                                    *)
(***************************************************************************)
\* Hex digits in a digest (SHA-256 has 64).
HexLen == 6
\* Largest value of the unsigned 32-bit fields (stands for 2^32 - 1).
U32Max == 63
\* Transactions in a block of the loaded chain.
MaxTx == 3
\* How many of the next unused digest values a fresh digest may be, in the
\* specifications that explore the digest function.
OracleWidth == 2

UsizeMax == U32Max

(***************************************************************************)
(* Strings.                                                                *)
(***************************************************************************)
HexChars == <<"0", "1", "2", "3", "4", "5", "6", "7", "8", "9", "a", "b", "c", "d", "e", "f">>

HexDigit(c) == (CHOOSE k \in 1..16 : HexChars[k] = c) - 1

IsHexChar(c) == \E k \in 1..16 : HexChars[k] = c

\* The byte value of a character, which Rust's str comparison orders by.
Ascii(c) ==
    IF c = "," THEN 44
    ELSE IF c = "x" THEN 120
    ELSE IF HexDigit(c) < 10 THEN 48 + HexDigit(c) ELSE 87 + HexDigit(c)

Min(a, b) == IF a < b THEN a ELSE b

\* Rust's `a < b` on strings: lexicographic by bytes, a proper prefix is smaller.
RECURSIVE StrLess(_, _)
StrLess(a, b) ==
    IF b = <<>> THEN FALSE
    ELSE IF a = <<>> THEN TRUE
    ELSE IF Head(a) = Head(b) THEN StrLess(Tail(a), Tail(b))
    ELSE Ascii(Head(a)) < Ascii(Head(b))

Prefix0x == <<"0", "x">>

\* str::trim_start_matches("0x"): strips every leading repetition of "0x".
RECURSIVE TrimStartMatches0x(_)
TrimStartMatches0x(s) ==
    IF Len(s) >= 2 /\ SubSeq(s, 1, 2) = Prefix0x
    THEN TrimStartMatches0x(SubSeq(s, 3, Len(s)))
    ELSE s

\* U256::from_be_hex accepts exactly a full-width string of hex digits.
IsFullHex(s) == Len(s) = HexLen /\ \A i \in 1..Len(s) : IsHexChar(s[i])

\* U256::from_be_hex: the big-endian value of a hex string.
RECURSIVE FromBeHex(_)
FromBeHex(s) ==
    IF s = <<>> THEN 0
    ELSE 16 * FromBeHex(SubSeq(s, 1, Len(s) - 1)) + HexDigit(s[Len(s)])

\* u32::to_string / u64::to_string: decimal without leading zeros.
RECURSIVE ToDecimal(_)
ToDecimal(n) ==
    IF n < 10 THEN <<HexChars[n + 1]>>
    ELSE ToDecimal(n \div 10) \o <<HexChars[(n % 10) + 1]>>

\* format!("{},{},...") over a sequence of strings.
RECURSIVE JoinComma(_)
JoinComma(parts) ==
    IF Len(parts) = 1 THEN parts[1]
    ELSE parts[1] \o <<",">> \o JoinComma(Tail(parts))

\* "0".repeat(n)
Zeros(n) == [i \in 1..n |-> "0"]

\* null_string of construct_merkle_tree: 0x followed by a digest's width of zeros.
null_string == Prefix0x \o Zeros(HexLen)

(***************************************************************************)
(* The digest oracle.                                                      *)
(***************************************************************************)
\* A hex string of the digest's width: k zeros, then the digit d repeated.
ZerosThen(k, d) == [i \in 1..HexLen |-> IF i <= k THEN "0" ELSE d]

\* Digest values for transactions and tree nodes; three of them start with 0.
TreeLane ==
    << ZerosThen(0, "7"), ZerosThen(1, "c"), ZerosThen(0, "2"), ZerosThen(1, "4"),
       ZerosThen(0, "e"), ZerosThen(2, "9"), ZerosThen(0, "5"), ZerosThen(0, "b"),
       ZerosThen(1, "8") >>

Take(lane, i) == SubSeq(lane, 1, i - 1) \o SubSeq(lane, i + 1, Len(lane))

\* The digest handed out as the n-th when a lane has no specimen left: it
\* differs from every specimen and from the digest for any other n, and has
\* no leading zero.
FreshDigest(n) ==
    [i \in 1..HexLen |-> IF i = 2 THEN HexChars[((n \div 16) % 16) + 1]
                         ELSE IF i = 3 THEN HexChars[(n % 16) + 1]
                         ELSE "9"]

\* digest(input): the ways the table and the unused values can be after the
\* call.  digest is total: an input seen before has the digest it had, a
\* new one gets one of the lane's next specimens, or a fresh digest when
\* the lane is used up.
Oracle(table, free, lane, input) ==
    IF input \in DOMAIN table THEN { <<table, free>> }
    ELSE IF free[lane] = <<>>
    THEN { << (input :> FreshDigest(Cardinality(DOMAIN table))) @@ table, free >> }
    ELSE { << (input :> free[lane][i]) @@ table, [free EXCEPT ![lane] = Take(@, i)] >> :
             i \in 1..Min(width, Len(free[lane])) }

\* digest applied to each input of a sequence in turn.
RECURSIVE OracleAll(_, _, _, _)
OracleAll(table, free, lane, inputs) ==
    IF inputs = <<>> THEN { <<table, free>> }
    ELSE UNION { OracleAll(r[1], r[2], lane, Tail(inputs)) :
                   r \in Oracle(table, free, lane, Head(inputs)) }

(***************************************************************************)
(* Canonical hashing (hashing.rs).                                         *)
(***************************************************************************)
\* The string a transaction is hashed from.
TransactionString(t) ==
    JoinComma(<< ToDecimal(t.amount), ToDecimal(t.lock_time), t.receiver, t.sender,
                 t.signature, ToDecimal(t.transaction_fee) >>)

\* Hashable for Transaction: the bare digest, without 0x.
TransactionHash(table, t) == table[TransactionString(t)]

\* The string a header is hashed from; it includes the header's own hash field.
HeaderString(h) ==
    JoinComma(<< ToDecimal(h.difficulty), h.hash, ToDecimal(h.height), h.miner,
                 ToDecimal(h.nonce), h.previous_block_header_hash, ToDecimal(h.timestamp),
                 ToDecimal(h.transactions_count), h.transactions_merkle_root >>)

\* Hashable for Header: 0x followed by the digest.
HeaderHash(table, h) == Prefix0x \o table[HeaderString(h)]

\* compute_transaction_hashes
compute_transaction_hashes(table, txs) ==
    [i \in 1..Len(txs) |-> TransactionHash(table, txs[i])]

(***************************************************************************)
(* Merkle tree (node.rs, miner::construct_merkle_tree).                    *)
(* A node is [hash, left, right]; an absent child is <<>>, a child c is    *)
(* <<c>>.                                                                  *)
(***************************************************************************)
LeafNode(h) == [hash |-> h, left |-> <<>>, right |-> <<>>]

\* A padding that repeats the last node instead of adding the placeholder.
PadLevelRepeatLast(ns) == IF Len(ns) % 2 # 0 THEN Append(ns, ns[Len(ns)]) ELSE ns

\* The odd-count padding at the top of the while loop.
PadLevel(ns) == IF Len(ns) % 2 # 0 THEN Append(ns, LeafNode(null_string)) ELSE ns

\* The string digested for the pair (node_a, node_b): numerically smaller hash first.
PairInput(node_a, node_b) ==
    LET hash_a_value == FromBeHex(TrimStartMatches0x(node_a.hash))
        hash_b_value == FromBeHex(TrimStartMatches0x(node_b.hash))
    IN  IF hash_a_value < hash_b_value
        THEN node_a.hash \o node_b.hash
        ELSE node_b.hash \o node_a.hash

\* The inputs digested by one iteration of the while loop, in pair order.
LevelInputs(ns) ==
    LET p == PadLevel(ns)
    IN  [i \in 1..(Len(p) \div 2) |-> PairInput(p[2 * i - 1], p[2 * i])]

\* next_level_nodes of one iteration of the while loop.
NextLevel(table, ns) ==
    LET p == PadLevel(ns)
    IN  [i \in 1..(Len(p) \div 2) |->
            [hash |-> table[PairInput(p[2 * i - 1], p[2 * i])],
             left |-> <<p[2 * i - 1]>>,
             right |-> <<p[2 * i]>>]]

\* from_be_hex panics on a string that is not a full-width hex number.
LevelPanics(ns) ==
    \E i \in 1..Len(PadLevel(ns)) : ~IsFullHex(TrimStartMatches0x(PadLevel(ns)[i].hash))

\* construct_merkle_tree over a table that holds every digest it needs:
\* <<root>>, or <<>> where nodes.get(0).unwrap() panics (no leaves).
RECURSIVE MerkleLevels(_, _)
MerkleLevels(table, ns) ==
    IF Len(ns) = 0 THEN <<>>
    ELSE IF Len(ns) = 1 THEN <<ns[1]>>
    ELSE MerkleLevels(table, NextLevel(table, ns))

construct_merkle_tree(table, transaction_hashes) ==
    MerkleLevels(table, [i \in 1..Len(transaction_hashes) |-> LeafNode(transaction_hashes[i])])

(***************************************************************************)
(* Inclusion proofs (node.rs, validator; model.rs, InclusionProof).        *)
(***************************************************************************)
\* Depth-first search for the node whose hash is the target: the path from
\* the root to it, or <<>> (None).
RECURSIVE find_path_to_transaction_in_merkle_tree(_, _, _)
find_path_to_transaction_in_merkle_tree(current_node, transaction_hash_to_verify, path_accumulator) ==
    LET new_path_accumulator == Append(path_accumulator, current_node)
        in_left ==
            IF current_node.left # <<>>
            THEN find_path_to_transaction_in_merkle_tree(
                     current_node.left[1], transaction_hash_to_verify, new_path_accumulator)
            ELSE <<>>
        in_right ==
            IF current_node.right # <<>>
            THEN find_path_to_transaction_in_merkle_tree(
                     current_node.right[1], transaction_hash_to_verify, new_path_accumulator)
            ELSE <<>>
    IN  IF current_node.hash = transaction_hash_to_verify THEN new_path_accumulator
        ELSE IF in_left # <<>> THEN in_left
        ELSE in_right

Reverse(s) == [i \in 1..Len(s) |-> s[Len(s) + 1 - i]]

\* The sibling recorded for the step from path[i] to path[i + 1].
SiblingAt(path, i) ==
    IF path[i].left[1].hash = path[i + 1].hash
    THEN path[i].right[1].hash
    ELSE path[i].left[1].hash

\* produce_inclusion_proof: <<proof>>, or <<>> (None) when the target is not in the tree.
produce_inclusion_proof(merkle_root, transaction_hash_to_verify) ==
    LET path_to_transaction ==
            find_path_to_transaction_in_merkle_tree(merkle_root, transaction_hash_to_verify, <<>>)
    IN  IF path_to_transaction = <<>> THEN <<>>
        ELSE << [transaction_hash |-> transaction_hash_to_verify,
                 merkle_root |-> Prefix0x \o merkle_root.hash,
                 hashes |-> Reverse([i \in 1..(Len(path_to_transaction) - 1) |->
                                        SiblingAt(path_to_transaction, i)])] >>

\* InclusionProof::verify, the string digested in one iteration: the
\* lexically smaller of current_hash and the sibling first.
VerifyInput(hash_a, hash_b) ==
    IF StrLess(hash_a, hash_b) THEN hash_a \o hash_b ELSE hash_b \o hash_a

\* A final comparison that does not look at the recomputed hash.
VerifyResultRootOnly(p, cur) ==
    IF p.merkle_root = p.merkle_root THEN "Ok" ELSE "Err"

\* InclusionProof::verify, the comparison after the loop.
VerifyResult(p, cur) ==
    IF Prefix0x \o cur = p.merkle_root THEN "Ok" ELSE "Err"

(***************************************************************************)
(* Input records.                                                          *)
(***************************************************************************)
Tx(amount, lock_time, fee) ==
    [amount |-> amount, lock_time |-> lock_time, receiver |-> <<"a">>, sender |-> <<"b">>,
     signature |-> <<"c">>, transaction_fee |-> fee]

\* The pending or stored transactions the inputs are drawn from.
TxSpecimens == { Tx(1, 40, 10), Tx(2, 40, 20), Tx(3, 50, 20), Tx(4, 1, 30) }

\* The transactions the blocks of a loaded chain are drawn from.
BlockTxSpecimens == { Tx(1, 40, 10), Tx(2, 40, 20), Tx(4, 1, 30) }

\* A block as it is read from the chain file.
LoadedBlock(height, timestamp, difficulty, hash, root, txs) ==
    [header |-> [difficulty |-> difficulty, height |-> height, miner |-> <<"0", "x", "e">>,
                 nonce |-> 0, hash |-> hash, previous_block_header_hash |-> Prefix0x,
                 timestamp |-> timestamp, transactions_count |-> Len(txs),
                 transactions_merkle_root |-> root],
     transactions |-> txs]

\* Sequences over S of length at most n.
SeqUpTo(S, n) == UNION { [1..k -> S] : k \in 0..n }

\* A digest value the oracle never hands out.
AbsentHash == ZerosThen(0, "f")

(***************************************************************************)
(* State shared by the commands.                                           *)
(***************************************************************************)
NoHeader == [difficulty |-> 0, height |-> 0, miner |-> <<>>, nonce |-> 0, hash |-> <<>>,
             previous_block_header_hash |-> <<>>, timestamp |-> 0, transactions_count |-> 0,
             transactions_merkle_root |-> <<>>]

NoProof == [transaction_hash |-> <<>>, merkle_root |-> <<>>, hashes |-> <<>>]

InitLocals ==
    /\ sha = << >>
    /\ pc = "idle"
    /\ status = "none"
    /\ log = <<>>
    /\ args = <<>>
    /\ nodes = <<>>
    /\ target = <<>>
    /\ proof = NoProof
    /\ current_hash = <<>>
    /\ vi = 0
    /\ caller = "none"
    /\ verdicts = <<>>
    /\ tampered = <<>>
    /\ blockchain = <<>>
    /\ most_recent_block = 0
    /\ executable_transactions = <<>>
    /\ new_block_transactions = <<>>
    /\ header = NoHeader
    /\ block_header_hash = <<>>
    /\ mined = 0
    /\ parents = <<>>
    /\ blockchain_state_output = <<>>
    /\ mempool_output = <<>>

\* A panic aborts the process: nothing more is written.  The report names
\* the expression that panicked.
Panic(site) ==
    /\ pc' = "idle"
    /\ status' = "panic"
    /\ log' = Append(log, site)

\* The command returns normally, having reported `report`.
Exit(report) ==
    /\ pc' = "idle"
    /\ status' = "ok"
    /\ log' = Append(log, report)

\* `number - 1` on usize, then Vec::get: "some" with the 1-based position
\* found, "none", or "panic" where a debug build's overflow check fires (a
\* release build wraps to the largest usize).
GetIndex(number, len) ==
    IF number = 0
    THEN (IF overflow_checks THEN [kind |-> "panic", at |-> 0]
          ELSE IF UsizeMax < len THEN [kind |-> "some", at |-> UsizeMax + 1]
          ELSE [kind |-> "none", at |-> 0])
    ELSE (IF number - 1 < len THEN [kind |-> "some", at |-> number]
          ELSE [kind |-> "none", at |-> 0])

(***************************************************************************)
(* construct_merkle_tree, one iteration of `while nodes.len() > 1`.        *)
(***************************************************************************)
TreeLevel ==
    /\ pc \in {"gen_tree", "mine_tree"}
    /\ Len(nodes) > 1
    /\ IF LevelPanics(nodes)
       THEN /\ Panic("panic_from_be_hex")
            /\ UNCHANGED <<oracleVars, nodes>>
       ELSE /\ \E r \in OracleAll(sha, unused, "tree", LevelInputs(nodes)) :
                 /\ sha' = r[1]
                 /\ unused' = r[2]
                 /\ nodes' = NextLevel(r[1], nodes)
            /\ UNCHANGED <<width, pc, status, log>>
    /\ UNCHANGED <<overflow_checks, fileVars, args, target, verifyVars, tampered, mineVars>>

(***************************************************************************)
(* validator::generate_inclusion_proof.                                    *)
(***************************************************************************)
\* Lines 207-218 up to the while loop: load the chain, take the block
\* (unwrap), hash its transactions, wrap the hashes as leaves.
GenerateStart(block_number) ==
    /\ pc = "idle"
    /\ status = "none"
    /\ args' = [block_number |-> block_number]
    /\ LET found == GetIndex(block_number, Len(blockchain_state))
       IN  IF found.kind # "some"
           THEN /\ Panic(IF found.kind = "panic" THEN "panic_overflow" ELSE "panic_block_unwrap")
                /\ UNCHANGED <<oracleVars, nodes>>
           ELSE LET transactions == blockchain_state[found.at].transactions
                    inputs == [i \in 1..Len(transactions) |-> TransactionString(transactions[i])]
                IN  /\ \E r \in OracleAll(sha, unused, "tree", inputs) :
                          /\ sha' = r[1]
                          /\ unused' = r[2]
                          /\ nodes' = [i \in 1..Len(transactions) |->
                                          LeafNode(TransactionHash(r[1], transactions[i]))]
                    /\ pc' = "gen_tree"
                    /\ UNCHANGED <<width, status, log>>
    /\ UNCHANGED <<overflow_checks, fileVars, target, verifyVars, tampered, mineVars>>

\* The hashes of all nodes of a tree.
RECURSIVE TreeHashes(_)
TreeHashes(n) ==
    {n.hash} \cup (IF n.left # <<>> THEN TreeHashes(n.left[1]) ELSE {})
             \cup (IF n.right # <<>> THEN TreeHashes(n.right[1]) ELSE {})

\* The leaves of a tree, left to right.
RECURSIVE TreeLeaves(_)
TreeLeaves(n) ==
    IF n.left = <<>> /\ n.right = <<>> THEN <<n.hash>>
    ELSE (IF n.left # <<>> THEN TreeLeaves(n.left[1]) ELSE <<>>)
         \o (IF n.right # <<>> THEN TreeLeaves(n.right[1]) ELSE <<>>)

\* The values of args.transaction_hash_to_verify tried: a hash of the tree, or one absent.
TargetCandidates == {AbsentHash} \cup (IF Len(nodes) = 1 THEN TreeHashes(nodes[1]) ELSE {})

\* Lines 218-232 after the while loop: the root (unwrap), the proof, the file.
GenerateFinish(transaction_hash_to_verify) ==
    /\ pc = "gen_tree"
    /\ Len(nodes) <= 1
    /\ target' = transaction_hash_to_verify
    /\ IF Len(nodes) = 0
       THEN /\ Panic("panic_empty_tree")
            /\ UNCHANGED inclusion_proof
       ELSE LET made == produce_inclusion_proof(nodes[1], transaction_hash_to_verify)
            IN  IF made = <<>>
                THEN /\ Exit("transaction_not_found")
                     /\ UNCHANGED inclusion_proof
                ELSE /\ Exit("generated")
                     /\ inclusion_proof' = made
    /\ UNCHANGED <<oracleVars, overflow_checks, blockchain_state, mempool,
                   blockchain_state_output, mempool_output, args, nodes, verifyVars,
                   tampered, mineVars>>

(***************************************************************************)
(* InclusionProof::verify.                                                 *)
(***************************************************************************)
\* A direct call of verify on the proof held in the proof file.
VerifyCall ==
    /\ pc = "idle"
    /\ inclusion_proof # <<>>
    /\ Len(verdicts) = Len(tampered)
    /\ proof' = inclusion_proof[1]
    /\ current_hash' = inclusion_proof[1].transaction_hash
    /\ vi' = 0
    /\ caller' = "direct"
    /\ pc' = "verify"
    /\ UNCHANGED <<oracleVars, overflow_checks, fileVars, status, log, args, nodes, target,
                   verdicts, tampered, mineVars>>

\* One iteration of `for i in 0..hashes.len()`.
VerifyStep ==
    /\ pc = "verify"
    /\ vi < Len(proof.hashes)
    /\ LET input == VerifyInput(current_hash, proof.hashes[vi + 1])
       IN  \E r \in Oracle(sha, unused, "tree", input) :
              /\ sha' = r[1]
              /\ unused' = r[2]
              /\ current_hash' = r[1][input]
    /\ vi' = vi + 1
    /\ UNCHANGED <<width, overflow_checks, fileVars, pc, status, log, args, nodes, target,
                   proof, caller, verdicts, tampered, mineVars>>

\* After the loop: the comparison with merkle_root; a cli caller reports it.
VerifyEnd ==
    /\ pc = "verify"
    /\ vi = Len(proof.hashes)
    /\ verdicts' = Append(verdicts, VerifyResult(proof, current_hash))
    /\ pc' = "idle"
    /\ IF caller = "cli"
       THEN /\ status' = "ok"
            /\ log' = Append(log, IF VerifyResult(proof, current_hash) = "Ok"
                                  THEN "valid" ELSE "invalid")
       ELSE UNCHANGED <<status, log>>
    /\ UNCHANGED <<oracleVars, overflow_checks, fileVars, args, nodes, target, proof,
                   current_hash, vi, caller, tampered, mineVars>>

\* The digest strings a sibling is replaced by: the proof's own leaf (a digest
\* computed before), the next unused digest, or the placeholder.
TamperValues ==
    {null_string}
    \cup (IF inclusion_proof # <<>> THEN {inclusion_proof[1].transaction_hash} ELSE {})
    \cup (IF unused["tree"] # <<>> THEN {unused["tree"][1]} ELSE {})

\* The proof file is edited: sibling j is replaced by a different digest string.
Tamper(j, h) ==
    /\ pc = "idle"
    /\ inclusion_proof # <<>>
    /\ Len(verdicts) = 1
    /\ tampered = <<>>
    /\ j \in 1..Len(inclusion_proof[1].hashes)
    /\ h # inclusion_proof[1].hashes[j]
    /\ inclusion_proof' = << [inclusion_proof[1] EXCEPT !.hashes[j] = h] >>
    /\ tampered' = <<j>>
    /\ UNCHANGED <<oracleVars, overflow_checks, blockchain_state, mempool,
                   blockchain_state_output, mempool_output, pc, status, log, args, nodes,
                   target, verifyVars, mineVars>>

(***************************************************************************)
(* SpecProof: a proof is generated for a block of the chain file, verified,*)
(* edited in one sibling and verified again.                               *)
(***************************************************************************)
InitProof ==
    /\ InitLocals
    /\ unused = [tree |-> TreeLane, hdr |-> <<>>]
    /\ width = OracleWidth
    /\ overflow_checks \in BOOLEAN
    /\ \E txs \in SeqUpTo(BlockTxSpecimens, MaxTx) :
          blockchain_state = << LoadedBlock(1, 5, 5, Prefix0x \o Zeros(HexLen), AbsentHash, txs) >>
    /\ mempool = <<>>
    /\ inclusion_proof = <<>>

NextProof ==
    \/ \E n \in 0..2 : GenerateStart(n)
    \/ TreeLevel
    \/ \E h \in TargetCandidates : GenerateFinish(h)
    \/ VerifyCall
    \/ VerifyStep
    \/ VerifyEnd
    \/ \E j \in 1..MaxTx, h \in TamperValues : Tamper(j, h)

SpecProof == InitProof /\ [][NextProof]_vars

(***************************************************************************)
(* miner::produce_blocks and miner::mine_new_block.                        *)
(***************************************************************************)
\* Transactions drained per block: the 100 of drain(0..100), scaled down.
BatchSize == 2
\* The difficulty passed to is_valid_block_header_hash by the mining loop.
PowDifficulty == 5
\* The simulated time between a block and its parent.
TimestampStep == 10
\* Bounds on the inputs of produce_blocks.
MaxChain == 2
MaxMempool == 4
MaxBlocks == 2

\* a + b on u32: <<sum>>, or <<>> where a debug build's overflow check
\* panics; a release build wraps.
AddU32(a, b) ==
    IF a + b <= U32Max THEN <<a + b>>
    ELSE IF overflow_checks THEN <<>>
    ELSE <<(a + b) % (U32Max + 1)>>

\* Iterator::max_by on the timestamps: the position of the last maximal block.
MaxByTimestamp(chain) ==
    CHOOSE i \in 1..Len(chain) :
        /\ \A j \in 1..Len(chain) : chain[j].header.timestamp <= chain[i].header.timestamp
        /\ \A j \in (i + 1)..Len(chain) : chain[j].header.timestamp < chain[i].header.timestamp

\* An insertion that puts t before the elements of equal fee, which turns
\* ties around.
InsertByFeeBeforeTies(sorted, t) ==
    LET k == Cardinality({ i \in 1..Len(sorted) : sorted[i].transaction_fee > t.transaction_fee })
    IN  SubSeq(sorted, 1, k) \o <<t>> \o SubSeq(sorted, k + 1, Len(sorted))

\* One insertion of the stable descending sort: t goes after every element
\* whose fee is at least its own.
InsertByFee(sorted, t) ==
    LET k == Cardinality({ i \in 1..Len(sorted) : sorted[i].transaction_fee >= t.transaction_fee })
    IN  SubSeq(sorted, 1, k) \o <<t>> \o SubSeq(sorted, k + 1, Len(sorted))

\* transactions.sort_by(|t1, t2| t2.transaction_fee.cmp(&t1.transaction_fee)): stable.
RECURSIVE SortByFeeDescending(_)
SortByFeeDescending(txs) ==
    IF txs = <<>> THEN <<>>
    ELSE InsertByFee(SortByFeeDescending(SubSeq(txs, 1, Len(txs) - 1)), txs[Len(txs)])

\* The filter closure of find_executable_transactions.
PassesFilter(t, new_block_timestamp) == t.lock_time > new_block_timestamp

\* find_executable_transactions
find_executable_transactions(transactions, new_block_timestamp) ==
    SelectSeq(SortByFeeDescending(transactions),
              LAMBDA t : PassesFilter(t, new_block_timestamp))

\* is_valid_block_header_hash: hash[2..(2 + difficulty)] == "0".repeat(difficulty)
is_valid_block_header_hash(hash, difficulty) ==
    SubSeq(hash, 3, 2 + difficulty) = Zeros(difficulty)

\* A header literal that stores the root hash without the 0x prefix.
NewHeaderBareRoot(previous_block, transaction_hashes, merkle_root, height, timestamp) ==
    [difficulty |-> previous_block.header.difficulty,
     height |-> height,
     miner |-> previous_block.header.miner,
     nonce |-> 0,
     hash |-> <<>>,
     previous_block_header_hash |-> previous_block.header.hash,
     timestamp |-> timestamp,
     transactions_count |-> Len(transaction_hashes),
     transactions_merkle_root |-> merkle_root.hash]

\* The header literal of mine_new_block (lines 139-149), given the sums.
NewHeader(previous_block, transaction_hashes, merkle_root, height, timestamp) ==
    [difficulty |-> previous_block.header.difficulty,
     height |-> height,
     miner |-> previous_block.header.miner,
     nonce |-> 0,
     hash |-> <<>>,
     previous_block_header_hash |-> previous_block.header.hash,
     timestamp |-> timestamp,
     transactions_count |-> Len(transaction_hashes),
     transactions_merkle_root |-> Prefix0x \o merkle_root.hash]

\* The block mine_new_block returns (lines 173-184).
MinedBlock(h, hash, transactions) ==
    [header |-> [h EXCEPT !.hash = hash], transactions |-> transactions]

\* produce_blocks, lines 16-28: load both files, find the most recent block
\* (unwrap), select the executable transactions.
ProduceBlocksStart(blocks_to_mine) ==
    /\ pc = "idle"
    /\ status = "none"
    /\ args' = [blocks_to_mine |-> blocks_to_mine]
    /\ blockchain' = blockchain_state
    /\ mined' = 0
    /\ IF blockchain_state = <<>>
       THEN /\ Panic("panic_max_by_unwrap")
            /\ UNCHANGED <<most_recent_block, executable_transactions>>
       ELSE LET recent == MaxByTimestamp(blockchain_state)
                new_block_timestamp ==
                    AddU32(blockchain_state[recent].header.timestamp, TimestampStep)
            IN  /\ most_recent_block' = recent
                /\ IF new_block_timestamp = <<>>
                   THEN /\ Panic("panic_overflow")
                        /\ UNCHANGED executable_transactions
                   ELSE /\ executable_transactions' =
                              find_executable_transactions(mempool, new_block_timestamp[1])
                        /\ pc' = "loop"
                        /\ UNCHANGED <<status, log>>
    /\ UNCHANGED <<oracleVars, overflow_checks, fileVars, nodes, target, verifyVars, tampered,
                   new_block_transactions, header, block_header_hash, parents>>

\* One iteration of `for _ in 0..args.blocks_to_mine`, up to the while loop
\* of construct_merkle_tree: drain the batch, hash it, wrap the leaves.
DrainBatch ==
    /\ pc = "loop"
    /\ mined < args.blocks_to_mine
    /\ IF Len(executable_transactions) < BatchSize
       THEN /\ Panic("panic_drain")
            /\ UNCHANGED <<oracleVars, nodes, executable_transactions, new_block_transactions>>
       ELSE LET transactions == SubSeq(executable_transactions, 1, BatchSize)
                inputs == [i \in 1..Len(transactions) |-> TransactionString(transactions[i])]
            IN  /\ new_block_transactions' = transactions
                /\ executable_transactions' =
                       SubSeq(executable_transactions, BatchSize + 1, Len(executable_transactions))
                /\ \E r \in OracleAll(sha, unused, "tree", inputs) :
                      /\ sha' = r[1]
                      /\ unused' = r[2]
                      /\ nodes' = [i \in 1..Len(transactions) |->
                                      LeafNode(TransactionHash(r[1], transactions[i]))]
                /\ pc' = "mine_tree"
                /\ UNCHANGED <<width, status, log>>
    /\ UNCHANGED <<overflow_checks, fileVars, args, target, verifyVars, tampered, blockchain,
                   most_recent_block, header, block_header_hash, mined, parents>>

\* mine_new_block after the tree is built: the header and its first hash
\* (lines 135-156).
AssembleHeader ==
    /\ pc = "mine_tree"
    /\ Len(nodes) <= 1
    /\ LET previous_block == blockchain[most_recent_block]
           height == AddU32(previous_block.header.height, 1)
           timestamp == AddU32(previous_block.header.timestamp, TimestampStep)
       IN  IF Len(nodes) = 0
           THEN /\ Panic("panic_empty_tree")
                /\ UNCHANGED <<oracleVars, header, block_header_hash>>
           ELSE IF height = <<>> \/ timestamp = <<>>
           THEN /\ Panic("panic_overflow")
                /\ UNCHANGED <<oracleVars, header, block_header_hash>>
           ELSE LET h == NewHeader(previous_block,
                                   compute_transaction_hashes(sha, new_block_transactions),
                                   nodes[1], height[1], timestamp[1])
                IN  /\ header' = h
                    /\ \E r \in Oracle(sha, unused, "hdr", HeaderString(h)) :
                          /\ sha' = r[1]
                          /\ unused' = r[2]
                          /\ block_header_hash' = HeaderHash(r[1], h)
                    /\ pc' = "pow"
                    /\ UNCHANGED <<width, status, log>>
    /\ UNCHANGED <<overflow_checks, fileVars, args, nodes, target, verifyVars, tampered,
                   blockchain, most_recent_block, executable_transactions,
                   new_block_transactions, mined, parents>>

\* A search that goes on from an invalid digest two nonces further.
MineStepByTwo ==
    /\ pc = "pow"
    /\ ~is_valid_block_header_hash(block_header_hash, PowDifficulty)
    /\ LET nonce == AddU32(header.nonce, 2)
       IN  IF nonce = <<>>
           THEN /\ Panic("panic_overflow")
                /\ UNCHANGED <<oracleVars, header, block_header_hash>>
           ELSE LET h == [header EXCEPT !.nonce = nonce[1]]
                IN  /\ header' = h
                    /\ \E r \in Oracle(sha, unused, "hdr", HeaderString(h)) :
                          /\ sha' = r[1]
                          /\ unused' = r[2]
                          /\ block_header_hash' = HeaderHash(r[1], h)
                    /\ UNCHANGED <<width, pc, status, log>>
    /\ UNCHANGED <<overflow_checks, fileVars, args, nodes, target, verifyVars, tampered,
                   blockchain, most_recent_block, executable_transactions,
                   new_block_transactions, mined, parents>>

\* One iteration of `while !is_valid_block_header_hash(&block_header_hash, 5)`.
MineStep ==
    /\ pc = "pow"
    /\ ~is_valid_block_header_hash(block_header_hash, PowDifficulty)
    /\ LET nonce == AddU32(header.nonce, 1)
       IN  IF nonce = <<>>
           THEN /\ Panic("panic_overflow")
                /\ UNCHANGED <<oracleVars, header, block_header_hash>>
           ELSE LET h == [header EXCEPT !.nonce = nonce[1]]
                IN  /\ header' = h
                    /\ \E r \in Oracle(sha, unused, "hdr", HeaderString(h)) :
                          /\ sha' = r[1]
                          /\ unused' = r[2]
                          /\ block_header_hash' = HeaderHash(r[1], h)
                    /\ UNCHANGED <<width, pc, status, log>>
    /\ UNCHANGED <<overflow_checks, fileVars, args, nodes, target, verifyVars, tampered,
                   blockchain, most_recent_block, executable_transactions,
                   new_block_transactions, mined, parents>>

\* A push that puts the mined block in front of the chain.
PushBlockInFront ==
    /\ pc = "pow"
    /\ is_valid_block_header_hash(block_header_hash, PowDifficulty)
    /\ blockchain' = <<MinedBlock(header, block_header_hash, new_block_transactions)>>
                         \o blockchain
    /\ most_recent_block' = 1
    /\ parents' = Append(parents, most_recent_block)
    /\ mined' = mined + 1
    /\ pc' = "loop"
    /\ UNCHANGED <<oracleVars, overflow_checks, fileVars, status, log, args, nodes, target,
                   verifyVars, tampered, executable_transactions, new_block_transactions,
                   header, block_header_hash>>

\* The loop has ended: mine_new_block stores the hash and returns the block
\* (lines 168-184), produce_blocks pushes it and takes it as most recent
\* (lines 33-34).
PushBlock ==
    /\ pc = "pow"
    /\ is_valid_block_header_hash(block_header_hash, PowDifficulty)
    /\ blockchain' = Append(blockchain,
                            MinedBlock(header, block_header_hash, new_block_transactions))
    /\ most_recent_block' = Len(blockchain) + 1
    /\ parents' = Append(parents, most_recent_block)
    /\ mined' = mined + 1
    /\ pc' = "loop"
    /\ UNCHANGED <<oracleVars, overflow_checks, fileVars, status, log, args, nodes, target,
                   verifyVars, tampered, executable_transactions, new_block_transactions,
                   header, block_header_hash>>

\* produce_blocks, lines 37-47: both output files are written.
WriteOutputs ==
    /\ pc = "loop"
    /\ mined = args.blocks_to_mine
    /\ blockchain_state_output' = <<blockchain>>
    /\ mempool_output' = <<executable_transactions>>
    /\ Exit("written")
    /\ UNCHANGED <<oracleVars, overflow_checks, blockchain_state, mempool, inclusion_proof,
                   args, nodes, target, verifyVars, tampered, mineVars>>

(***************************************************************************)
(* SpecMine: one run of produce_blocks on a loaded chain and mempool.      *)
(***************************************************************************)
\* Digest values for headers: with five or more leading zeros, and with fewer.
Good5a == ZerosThen(PowDifficulty, "a")
Good5b == ZerosThen(PowDifficulty, "3")
GoodAll == Zeros(HexLen)
BadA == ZerosThen(PowDifficulty - 1, "1")
BadB == ZerosThen(0, "d")
BadC == ZerosThen(3, "6")

\* The header digests, in the order the nonce search meets them.
HdrTapes ==
    { << Good5a, Good5b, GoodAll >>,
      << BadA, Good5a, BadB, BadC, GoodAll, Good5b >>,
      << GoodAll, BadA, Good5b, Good5a >> }

\* The blocks a loaded chain is drawn from.
LoadedBlocks ==
    { LoadedBlock(1, 5, 5, Prefix0x \o ZerosThen(5, "1"), Prefix0x \o AbsentHash, <<>>),
      LoadedBlock(2, 20, 0, Prefix0x \o ZerosThen(5, "2"), Prefix0x \o AbsentHash, <<>>),
      LoadedBlock(3, U32Max - 3, 6, Prefix0x \o ZerosThen(5, "4"), Prefix0x \o AbsentHash, <<>>) }

InitMine ==
    /\ InitLocals
    /\ \E tape \in HdrTapes : unused = [tree |-> TreeLane, hdr |-> tape]
    /\ width = 1
    /\ overflow_checks \in BOOLEAN
    /\ blockchain_state \in SeqUpTo(LoadedBlocks, MaxChain) \ {<<>>}
    /\ mempool \in SeqUpTo(TxSpecimens, MaxMempool)
    /\ inclusion_proof = <<>>

NextMine ==
    \/ \E k \in 0..MaxBlocks : ProduceBlocksStart(k)
    \/ DrainBatch
    \/ TreeLevel
    \/ AssembleHeader
    \/ MineStep
    \/ PushBlock
    \/ WriteOutputs

SpecMine == InitMine /\ [][NextMine]_vars

(***************************************************************************)
(* The lookups by number: views::show_transaction_hash and                 *)
(* validator::verify_inclusion_proof; generate_inclusion_proof is above.   *)
(***************************************************************************)
\* show_transaction_hash with get_transaction_hash: both numbers go through
\* `number - 1` and Vec::get with `?`; on None nothing is printed.
ShowTransactionHash(block_number, transaction_number) ==
    /\ pc = "idle"
    /\ status = "none"
    /\ args' = [block_number |-> block_number,
                transaction_number_in_block |-> transaction_number]
    /\ LET block == GetIndex(block_number, Len(blockchain_state))
       IN  IF block.kind = "panic"
           THEN Panic("panic_overflow") /\ UNCHANGED oracleVars
           ELSE IF block.kind = "none"
           THEN Exit("none") /\ UNCHANGED oracleVars
           ELSE LET transactions == blockchain_state[block.at].transactions
                    transaction == GetIndex(transaction_number, Len(transactions))
                IN  IF transaction.kind = "panic"
                    THEN Panic("panic_overflow") /\ UNCHANGED oracleVars
                    ELSE IF transaction.kind = "none"
                    THEN Exit("none") /\ UNCHANGED oracleVars
                    ELSE /\ \E r \in Oracle(sha, unused, "tree",
                                            TransactionString(transactions[transaction.at])) :
                               sha' = r[1] /\ unused' = r[2]
                         /\ Exit("hash_shown")
                         /\ UNCHANGED width
    /\ UNCHANGED <<overflow_checks, fileVars, nodes, target, verifyVars, tampered, mineVars>>

\* A verify_inclusion_proof that does not compare the proof's root with the
\* block's.
VerifyInclusionProofStartAnyRoot(block_number) ==
    /\ pc = "idle"
    /\ status = "none"
    /\ inclusion_proof # <<>>
    /\ args' = [block_number |-> block_number]
    /\ LET block == GetIndex(block_number, Len(blockchain_state))
       IN  IF block.kind = "panic"
           THEN Panic("panic_overflow") /\ UNCHANGED verifyVars
           ELSE IF block.kind = "none"
           THEN Exit("block_not_found") /\ UNCHANGED verifyVars
           ELSE /\ proof' = inclusion_proof[1]
                /\ current_hash' = inclusion_proof[1].transaction_hash
                /\ vi' = 0
                /\ caller' = "cli"
                /\ pc' = "verify"
                /\ UNCHANGED <<status, log, verdicts>>
    /\ UNCHANGED <<oracleVars, overflow_checks, fileVars, nodes, target, tampered, mineVars>>

\* verify_inclusion_proof up to the call of verify (lines 320-336).
VerifyInclusionProofStart(block_number) ==
    /\ pc = "idle"
    /\ status = "none"
    /\ inclusion_proof # <<>>
    /\ args' = [block_number |-> block_number]
    /\ LET block == GetIndex(block_number, Len(blockchain_state))
       IN  IF block.kind = "panic"
           THEN Panic("panic_overflow") /\ UNCHANGED verifyVars
           ELSE IF block.kind = "none"
           THEN Exit("block_not_found") /\ UNCHANGED verifyVars
           ELSE IF blockchain_state[block.at].header.transactions_merkle_root
                       # inclusion_proof[1].merkle_root
           THEN Exit("root_mismatch") /\ UNCHANGED verifyVars
           ELSE /\ proof' = inclusion_proof[1]
                /\ current_hash' = inclusion_proof[1].transaction_hash
                /\ vi' = 0
                /\ caller' = "cli"
                /\ pc' = "verify"
                /\ UNCHANGED <<status, log, verdicts>>
    /\ UNCHANGED <<oracleVars, overflow_checks, fileVars, nodes, target, tampered, mineVars>>

\* The proof files verify_inclusion_proof is given: a leaf that is its own
\* root, a leaf with the placeholder as its one sibling, and a proof for
\* another root.
ProofFiles ==
    { [transaction_hash |-> TreeLane[1], merkle_root |-> Prefix0x \o TreeLane[1],
       hashes |-> <<>>],
      [transaction_hash |-> TreeLane[1], merkle_root |-> Prefix0x \o TreeLane[2],
       hashes |-> <<null_string>>],
      [transaction_hash |-> TreeLane[1], merkle_root |-> Prefix0x \o AbsentHash,
       hashes |-> <<>>] }

InitLookup ==
    /\ InitLocals
    /\ unused = [tree |-> Tail(TreeLane), hdr |-> <<>>]
    /\ width = OracleWidth
    /\ overflow_checks \in BOOLEAN
    /\ \E txs \in SeqUpTo(BlockTxSpecimens, MaxTx - 1), i \in 1..2 :
          blockchain_state =
              << LoadedBlock(1, 5, 5, Prefix0x \o Zeros(HexLen),
                             Prefix0x \o TreeLane[i], txs) >>
    /\ mempool = <<>>
    /\ \E p \in ProofFiles : inclusion_proof = <<p>>

NextLookup ==
    \/ \E b \in 0..2, t \in 0..MaxTx : ShowTransactionHash(b, t)
    \/ \E b \in 0..2 : VerifyInclusionProofStart(b)
    \/ VerifyStep
    \/ VerifyEnd
    \/ \E n \in 0..2 : GenerateStart(n)
    \/ TreeLevel
    \/ \E h \in TargetCandidates : GenerateFinish(h)

SpecLookup == InitLookup /\ [][NextLookup]_vars

(***************************************************************************)
(* Claims about inclusion proofs, checked under SpecProof.                 *)
(***************************************************************************)
\* The block the generation command was asked for.
RequestedBlock == blockchain_state[args.block_number]

\* A generation command has run on a block that exists.
GeneratedFor == target # <<>> /\ args # <<>> /\ args.block_number \in 1..Len(blockchain_state)

\* The proof was asked for the hash of one of the block's transactions.
TargetIsTransaction ==
    /\ GeneratedFor
    /\ \E i \in 1..Len(RequestedBlock.transactions) :
          target = TransactionHash(sha, RequestedBlock.transactions[i])

\* The root construct_merkle_tree gives for the requested block.
ExpectedRoot ==
    construct_merkle_tree(sha, compute_transaction_hashes(sha, RequestedBlock.transactions))[1]

\* The first verify call, on the proof as generated, has returned.
FirstVerified == Len(verdicts) = 1 /\ tampered = <<>>

\* C1: a proof generated for the hash of a transaction of the block verifies
\* (verify returns Ok) and carries 0x + the root hash of the block's tree.
C1_ProofRoundTrip ==
    (FirstVerified /\ TargetIsTransaction) =>
        /\ verdicts[1] = "Ok"
        /\ proof.merkle_root = Prefix0x \o ExpectedRoot.hash

\* C2: once a proof has verified, the proof with one sibling replaced by a
\* different digest string fails verification.
C2_TamperedProofRejected ==
    (Len(verdicts) = 2 /\ verdicts[1] = "Ok") => verdicts[2] = "Err"

\* A proof with two siblings verified, its second sibling was replaced, and
\* the edited proof was rejected.
C2_Witness ==
    /\ Len(verdicts) = 2
    /\ verdicts[1] = "Ok"
    /\ verdicts[2] = "Err"
    /\ tampered = <<2>>
    /\ Len(proof.hashes) = 2

(***************************************************************************)
(* Claims about produce_blocks, checked under SpecMine.                    *)
(***************************************************************************)
\* The chain positions of the blocks mined by this run.
MinedPositions == (Len(blockchain_state) + 1)..Len(blockchain)

\* The parent block the miner was given for the block at position p.
ParentOf(p) == blockchain[parents[p - Len(blockchain_state)]]

\* The number of leading "0" characters of a string.
RECURSIVE LeadingZeros(_)
LeadingZeros(s) ==
    IF s # <<>> /\ Head(s) = "0" THEN 1 + LeadingZeros(Tail(s)) ELSE 0

\* The transactions of the mined blocks, in chain order.
RECURSIVE MinedTransactions(_)
MinedTransactions(p) ==
    IF p > Len(blockchain) THEN <<>>
    ELSE blockchain[p].transactions \o MinedTransactions(p + 1)

SeqToBag(q) == [x \in {q[i] : i \in 1..Len(q)} |-> Cardinality({i \in 1..Len(q) : q[i] = x})]

Fees(q) == [i \in 1..Len(q) |-> q[i].transaction_fee]

\* C3: a mined header copies the parent's difficulty, its stored hash is the
\* digest at the returned nonce, that digest has at least header.difficulty
\* leading zero digits after 0x, and under difficulty 0 the nonce is 0.
C3_PowValidity ==
    \A p \in MinedPositions :
        LET h == blockchain[p].header
        IN  /\ h.difficulty = ParentOf(p).header.difficulty
            /\ h.hash = HeaderHash(sha, [h EXCEPT !.hash = <<>>])
            /\ LeadingZeros(SubSeq(h.hash, 3, Len(h.hash))) >= h.difficulty
            /\ (h.difficulty = 0 => h.nonce = 0)

\* C4: a mined block's header counts its transactions and carries 0x + the
\* root hash of the Merkle tree over their hashes in stored order.
C4_BlockCommitsToTransactions ==
    \A p \in MinedPositions :
        LET b == blockchain[p]
        IN  /\ b.header.transactions_count = Len(b.transactions)
            /\ b.header.transactions_merkle_root =
                   Prefix0x \o construct_merkle_tree(
                       sha, compute_transaction_hashes(sha, b.transactions))[1].hash

\* Two blocks were mined and written, each with a full batch.
C4_Witness ==
    /\ blockchain_state_output # <<>>
    /\ Len(blockchain_state_output[1]) = Len(blockchain_state) + 2
    /\ \A p \in MinedPositions : Len(blockchain[p].transactions) = BatchSize
    /\ \E p \in MinedPositions : blockchain[p].transactions[1] # blockchain[p].transactions[2]

\* C5: the previous_block_header_hash of a mined block is the hash of a block
\* whose timestamp is the largest in the chain the block was appended to.
C5_ParentIsMostRecent ==
    \A p \in MinedPositions :
        \E q \in 1..(p - 1) :
            /\ blockchain[p].header.previous_block_header_hash = blockchain[q].header.hash
            /\ \A r \in 1..(p - 1) :
                  blockchain[r].header.timestamp <= blockchain[q].header.timestamp

\* C6: the written mempool and the mined blocks together hold exactly the
\* transactions of the input mempool, each as often as the input held it.
C6_MempoolConservation ==
    mempool_output # <<>> =>
        SeqToBag(mempool) =
            SeqToBag(mempool_output[1] \o MinedTransactions(Len(blockchain_state) + 1))

\* C7: an iteration of the loop hands the miner the first BatchSize
\* transactions of the pool, or all of them when fewer remain, and goes on
\* to mine; the others stay in the pool.
C7_Batching ==
    [][ (pc = "loop" /\ mined < args.blocks_to_mine) =>
          LET n == Min(BatchSize, Len(executable_transactions))
          IN  /\ pc' = "mine_tree"
              /\ new_block_transactions' = SubSeq(executable_transactions, 1, n)
              /\ executable_transactions' =
                     SubSeq(executable_transactions, n + 1, Len(executable_transactions))
      ]_vars

\* C8: the lock time of every transaction of a mined block has elapsed at
\* the block's timestamp.
C8_LockTimeElapsed ==
    \A p \in MinedPositions :
        \A i \in 1..Len(blockchain[p].transactions) :
            blockchain[p].transactions[i].lock_time <= blockchain[p].header.timestamp

\* C9: the selector's order is a permutation of the mempool, by fee
\* descending, ties in input order ([30, 10, 20] gives [30, 20, 10]); fees
\* do not increase within a mined block, from an earlier mined block to a
\* later one, or from a mined block to the pool.
C9_FeePriority ==
    LET sorted == SortByFeeDescending(mempool)
        taken == MinedTransactions(Len(blockchain_state) + 1)
    IN  /\ SeqToBag(sorted) = SeqToBag(mempool)
        /\ \A i, j \in 1..Len(sorted) :
              i < j => sorted[i].transaction_fee >= sorted[j].transaction_fee
        /\ \A t \in TxSpecimens :
              SelectSeq(sorted, LAMBDA u : u.transaction_fee = t.transaction_fee)
                  = SelectSeq(mempool, LAMBDA u : u.transaction_fee = t.transaction_fee)
        /\ (Fees(mempool) = <<30, 10, 20>> => Fees(sorted) = <<30, 20, 10>>)
        /\ \A i, j \in 1..Len(taken) :
              i < j => taken[i].transaction_fee >= taken[j].transaction_fee
        /\ \A i \in 1..Len(taken), j \in 1..Len(executable_transactions) :
              taken[i].transaction_fee >= executable_transactions[j].transaction_fee
        /\ (mempool_output # <<>> =>
              \A i \in 1..Len(taken), j \in 1..Len(mempool_output[1]) :
                  taken[i].transaction_fee >= mempool_output[1][j].transaction_fee)

\* Two blocks were mined from a mempool that was not in fee order, the
\* first with a higher fee than the second, and ties were present.
C9_Witness ==
    /\ mined = 2
    /\ Len(blockchain) = Len(blockchain_state) + 2
    /\ mempool # SortByFeeDescending(mempool)
    /\ \E i, j \in 1..Len(mempool) :
          i # j /\ mempool[i] # mempool[j]
                /\ mempool[i].transaction_fee = mempool[j].transaction_fee
    /\ blockchain[Len(blockchain_state) + 1].transactions[1].transaction_fee
           > blockchain[Len(blockchain_state) + 2].transactions[1].transaction_fee

(***************************************************************************)
(* Claims about the lookups by number, checked under SpecLookup.           *)
(***************************************************************************)
\* The command was given a block number past the end of the chain, or a
\* transaction number past the end of the block.
OutOfRange ==
    /\ "block_number" \in DOMAIN args
    /\ \/ args.block_number > Len(blockchain_state)
       \/ /\ "transaction_number_in_block" \in DOMAIN args
          /\ args.block_number \in 1..Len(blockchain_state)
          /\ args.transaction_number_in_block
                 > Len(blockchain_state[args.block_number].transactions)

\* C10: a lookup with a number past the end returns normally with a
\* not-found outcome and writes no proof file; the process does not abort.
C10_OutOfRangeNotFatal ==
    (OutOfRange /\ status # "none") =>
        /\ status = "ok"
        /\ log[Len(log)] \in {"none", "block_not_found"}
        /\ \A i \in 1..Len(log) : log[i] # "generated"

\* The command was given block number 0, or transaction number 0 in a block
\* that exists.
ZeroIndex ==
    /\ "block_number" \in DOMAIN args
    /\ \/ args.block_number = 0
       \/ /\ "transaction_number_in_block" \in DOMAIN args
          /\ args.block_number \in 1..Len(blockchain_state)
          /\ args.transaction_number_in_block = 0

\* C11: a lookup given the number 0 returns normally with a not-found
\* outcome: `number - 1` is not evaluated at 0, so nothing aborts.
C11_IndexZeroNeverUnderflows ==
    (ZeroIndex /\ status # "none") =>
        /\ status = "ok"
        /\ log[Len(log)] \in {"none", "block_not_found"}

(***************************************************************************)
(* SpecNonce: produce_blocks when the header digests may all be invalid.   *)
(***************************************************************************)
\* The n-th of a run of distinct digests without a leading zero.
NthBadDigest(n) ==
    [i \in 1..HexLen |-> IF i = 2 THEN HexChars[(n \div 16) + 1]
                         ELSE IF i = 3 THEN HexChars[(n % 16) + 1]
                         ELSE "f"]

\* Header digests that are invalid for every nonce of the u32 range.
ExhaustTape == [n \in 1..(U32Max + 2) |-> NthBadDigest(n)]

InitNonce ==
    /\ InitLocals
    /\ \E tape \in {ExhaustTape, <<BadA, BadB, Good5a>>} :
          unused = [tree |-> TreeLane, hdr |-> tape]
    /\ width = 1
    /\ overflow_checks \in BOOLEAN
    /\ blockchain_state =
          << LoadedBlock(1, 5, 5, Prefix0x \o ZerosThen(5, "1"), Prefix0x \o AbsentHash, <<>>) >>
    /\ mempool \in [1..BatchSize -> {Tx(1, 40, 10), Tx(2, 40, 20)}]
    /\ inclusion_proof = <<>>

SpecNonce == InitNonce /\ [][NextMine]_vars

(***************************************************************************)
(* Claims about the nonce search, checked under SpecNonce.                 *)
(***************************************************************************)
\* C12: when the digest at the last nonce of the u32 range is invalid too,
\* the search ends there with a failure report of its own; the nonce does
\* not go back to 0 and the search does not go on.
C12_NonceExhaustionSignaled ==
    [][ (/\ pc = "pow"
         /\ header.nonce = U32Max
         /\ ~is_valid_block_header_hash(block_header_hash, PowDifficulty)) =>
            /\ pc' = "idle"
            /\ header'.nonce = U32Max
            /\ log' = Append(log, "nonce_exhausted")
      ]_vars

(***************************************************************************)
(* Claims about verification, checked under SpecLookup.                    *)
(***************************************************************************)
\* The hash obtained by folding cur with the siblings in order, read from
\* the digests computed so far.
RECURSIVE FoldSiblings(_, _)
FoldSiblings(cur, hashes) ==
    IF hashes = <<>> THEN cur
    ELSE FoldSiblings(sha[VerifyInput(cur, Head(hashes))], Tail(hashes))

\* verify_inclusion_proof has run to its end on a block that exists.
VerifyCommandEnded ==
    /\ caller = "cli"
    /\ pc = "idle"
    /\ Len(verdicts) = 1

\* C13: verify returns Ok exactly when the fold of transaction_hash with the
\* siblings, prefixed with 0x, is merkle_root, and leaves the proof as it
\* was; verify_inclusion_proof reports valid only if the block's recorded
\* root is the proof's root as well; a mismatch ends as a report.
C13_VerificationOutcome ==
    /\ VerifyCommandEnded =>
          /\ proof = inclusion_proof[1]
          /\ (verdicts[1] = "Ok") <=>
                 (Prefix0x \o FoldSiblings(proof.transaction_hash, proof.hashes)
                      = proof.merkle_root)
          /\ verdicts[1] \in {"Ok", "Err"}
          /\ status = "ok"
          /\ log = << IF verdicts[1] = "Ok" THEN "valid" ELSE "invalid" >>
          /\ blockchain_state[args.block_number].header.transactions_merkle_root
                 = proof.merkle_root
    /\ \A i \in 1..Len(log) :
          /\ log[i] = "valid" => VerifyCommandEnded /\ verdicts[1] = "Ok"
          /\ log[i] = "root_mismatch" =>
                /\ status = "ok"
                /\ verdicts = <<>>
                /\ blockchain_state[args.block_number].header.transactions_merkle_root
                       # inclusion_proof[1].merkle_root

\* A proof with one sibling was reported valid.
C13_Witness ==
    /\ VerifyCommandEnded
    /\ log = <<"valid">>
    /\ Len(proof.hashes) = 1

\* A proof with one sibling was reported invalid, its root being the block's.
C13_WitnessInvalid ==
    /\ VerifyCommandEnded
    /\ log = <<"invalid">>
    /\ Len(proof.hashes) = 1

(***************************************************************************)
(* Further claims about produce_blocks, checked under SpecMine.            *)
(***************************************************************************)
\* C14: the chain in memory, and the chain written at the end, is the
\* loaded chain, unchanged and in its order, followed by the mined blocks
\* in the order they were mined; the written chain has blocks_to_mine of them.
C14_AppendOnly ==
    /\ blockchain # <<>> =>
          /\ Len(blockchain) = Len(blockchain_state) + mined
          /\ SubSeq(blockchain, 1, Len(blockchain_state)) = blockchain_state
          /\ Len(parents) = mined
          /\ \A j \in 2..mined : parents[j] = Len(blockchain_state) + j - 1
          /\ \A j \in 1..mined :
                blockchain[Len(blockchain_state) + j].header.previous_block_header_hash
                    = blockchain[parents[j]].header.hash
    /\ blockchain_state_output # <<>> =>
          /\ blockchain_state_output[1] = blockchain
          /\ Len(blockchain_state_output[1]) = Len(blockchain_state) + args.blocks_to_mine

\* Two blocks were mined onto a loaded chain of two blocks that is not in
\* timestamp order, and the chain was written.
C14_Witness ==
    /\ blockchain_state_output # <<>>
    /\ args.blocks_to_mine = 2
    /\ Len(blockchain_state) = 2
    /\ blockchain_state[1].header.timestamp > blockchain_state[2].header.timestamp
    /\ Len(blockchain_state_output[1]) = 4

(***************************************************************************)
(* Further claims about inclusion proofs, checked under SpecProof.         *)
(***************************************************************************)
\* C15: at every step of verifying a proof as generated, verify digests the
\* current hash and the sibling in the order construct_merkle_tree digests
\* that pair in: the numerically smaller value first.
C15_SameOrderingRule ==
    (pc = "verify" /\ tampered = <<>> /\ vi < Len(proof.hashes)) =>
        VerifyInput(current_hash, proof.hashes[vi + 1])
            = PairInput(LeafNode(current_hash), LeafNode(proof.hashes[vi + 1]))

\* The most recent block of the loaded chain.
LoadedMostRecent == blockchain_state[MaxByTimestamp(blockchain_state)]

\* C16: the j-th mined block has the height of the loaded chain's most
\* recent block plus j, its timestamp plus 10 j, its difficulty and its
\* miner; the search starts from an empty hash field; heights and
\* timestamps increase from one mined block to the next.
C16_HeaderProgression ==
    /\ \A j \in 1..Len(parents) :
          LET h == blockchain[Len(blockchain_state) + j].header
          IN  /\ h.height = LoadedMostRecent.header.height + j
              /\ h.timestamp = LoadedMostRecent.header.timestamp + TimestampStep * j
              /\ h.difficulty = LoadedMostRecent.header.difficulty
              /\ h.miner = LoadedMostRecent.header.miner
              /\ h.height > blockchain[parents[j]].header.height
              /\ h.timestamp > blockchain[parents[j]].header.timestamp
    /\ pc = "pow" => header.hash = <<>>

\* The number of pairing levels over n leaves: ceil(log2 n).
RECURSIVE CeilLog2(_)
CeilLog2(n) == IF n <= 1 THEN 0 ELSE 1 + CeilLog2((n + 1) \div 2)

\* The hashes of the nodes d levels below n.
RECURSIVE HashesAtDepth(_, _)
HashesAtDepth(n, d) ==
    IF d = 0 THEN {n.hash}
    ELSE (IF n.left # <<>> THEN HashesAtDepth(n.left[1], d - 1) ELSE {})
         \cup (IF n.right # <<>> THEN HashesAtDepth(n.right[1], d - 1) ELSE {})

\* generate_inclusion_proof has written a proof, and it is as written.
ProofGenerated ==
    /\ log = <<"generated">>
    /\ tampered = <<>>
    /\ inclusion_proof # <<>>

\* C17: a proof returned for a tree over N leaves has as many siblings as
\* the leaves are deep, ceil(log2 N), and its i-th sibling from the end is
\* a node i levels below the root.
C17_ProofLength ==
    ProofGenerated =>
        LET hashes == inclusion_proof[1].hashes
        IN  /\ Len(hashes) = CeilLog2(Len(RequestedBlock.transactions))
            /\ \A i \in 1..Len(hashes) :
                  hashes[Len(hashes) + 1 - i] \in HashesAtDepth(nodes[1], i)

\* The hashes of the transactions of the requested block.
RequestedHashes == compute_transaction_hashes(sha, RequestedBlock.transactions)

\* A node without children.
Childless(n) == n.left = <<>> /\ n.right = <<>>

\* One iteration of the tree loop of generate_inclusion_proof pairs the
\* nodes in order and, when their number is odd, pairs the last with one
\* childless placeholder.
PaddedPairing ==
    (pc = "gen_tree" /\ pc' = "gen_tree" /\ nodes' # nodes) =>
        /\ Len(nodes) > 1
        /\ Len(nodes') = (Len(nodes) + 1) \div 2
        /\ \A i \in 1..Len(nodes') :
              /\ nodes'[i].left = <<nodes[2 * i - 1]>>
              /\ nodes'[i].right =
                     IF 2 * i <= Len(nodes) THEN <<nodes[2 * i]>>
                     ELSE <<LeafNode(null_string)>>

\* The tree and the proof generated for a block of three transactions.
ThreeLeafTree ==
    (ProofGenerated /\ Len(RequestedBlock.transactions) = 3) =>
        /\ TreeLeaves(nodes[1]) = RequestedHashes \o <<null_string>>
        /\ \A side \in {nodes[1].left[1], nodes[1].right[1]} :
              /\ ~Childless(side)
              /\ Childless(side.left[1])
              /\ Childless(side.right[1])
        /\ (target = RequestedHashes[3] /\ target \notin {RequestedHashes[1], RequestedHashes[2]})
               => inclusion_proof[1].hashes[1] = null_string

\* C18: a level of more than one node with an odd number of nodes gets
\* exactly one childless placeholder at its end before pairing, other levels
\* get none; three leaves give four leaves, two intermediate nodes and a
\* root, and the proof for the third has the placeholder as first sibling.
C18_OddCountPadding == [][PaddedPairing]_vars /\ []ThreeLeafTree

\* A proof was generated for the third of three transactions, and its
\* first sibling is the placeholder.
C18_Witness ==
    /\ ProofGenerated
    /\ args.block_number = 1
    /\ Len(RequestedBlock.transactions) = 3
    /\ target = RequestedHashes[3]
    /\ target \notin {RequestedHashes[1], RequestedHashes[2]}
    /\ inclusion_proof[1].hashes[1] = null_string
    /\ Len(inclusion_proof[1].hashes) = 2

\* C19: generate_inclusion_proof for a block without transactions returns
\* normally with a report that there is no tree, and writes no proof file.
C19_EmptyLeavesReported ==
    (/\ "block_number" \in DOMAIN args
     /\ args.block_number \in 1..Len(blockchain_state)
     /\ RequestedBlock.transactions = <<>>
     /\ status # "none") =>
        /\ status = "ok"
        /\ log \in {<<"no_transactions">>, <<"transaction_not_found">>}
        /\ inclusion_proof = <<>>

\* Header h with its nonce set to n and its hash field empty.
AtNonce(h, n) == [h EXCEPT !.nonce = n, !.hash = <<>>]

\* Every nonce below h's was tested on h and gave an invalid digest.
SmallerNoncesFailed(h) ==
    \A n \in 0..(h.nonce - 1) :
        /\ HeaderString(AtNonce(h, n)) \in DOMAIN sha
        /\ ~is_valid_block_header_hash(HeaderHash(sha, AtNonce(h, n)), PowDifficulty)

\* One attempt of the search follows the other with the nonce one higher
\* and the other header fields as they were, after an invalid digest.
NextNonceTested ==
    (pc = "pow" /\ pc' = "pow" /\ header' # header /\ header.nonce < U32Max) =>
        /\ header' = [header EXCEPT !.nonce = header.nonce + 1]
        /\ ~is_valid_block_header_hash(block_header_hash, PowDifficulty)
        /\ block_header_hash' = HeaderHash(sha', header')

\* The search has tested the nonces below the current one in vain, and a
\* mined block has the smallest nonce with a valid digest and that digest.
SmallestNonceReturned ==
    /\ pc = "pow" =>
          /\ header.hash = <<>>
          /\ block_header_hash = HeaderHash(sha, header)
          /\ SmallerNoncesFailed(header)
    /\ \A p \in MinedPositions :
          LET h == blockchain[p].header
          IN  /\ h.hash = HeaderHash(sha, AtNonce(h, h.nonce))
              /\ is_valid_block_header_hash(h.hash, PowDifficulty)
              /\ SmallerNoncesFailed(h)

\* C20: the search tests the nonces from 0 upwards one by one, changing
\* nothing but the nonce, and stops at the first valid digest: a mined
\* header has the smallest nonce whose digest passes the check, and its
\* hash is the digest at that nonce with the hash field empty.
C20_NonceSearchOrder == [][NextNonceTested]_vars /\ []SmallestNonceReturned

\* A block was mined at nonce 2, after the digests at nonces 0 and 1 failed.
C20_Witness ==
    \E p \in MinedPositions :
        /\ blockchain[p].header.nonce = 2
        /\ SmallerNoncesFailed(blockchain[p].header)

====
